---- MODULE Spec2Model ----
(***************************************************************************)
(* A model of src/ziparchive.rs: ZipArchive::new opens a file, scans it    *)
(* backward for the end-of-central-directory signature, and loads the      *)
(* EofRecord found at the resulting offset.                                *)
(*                                                                         *)
(* A file is a sequence of bytes (0..255), positions are 0-based as in the *)
(* code; the i-th byte of a file is src[i + 1].                            *)
(* File::read on a regular file fills the buffer up to end-of-file; the    *)
(* byte count it returns is ignored by the code.  The struct is filled as  *)
(* on a little-endian host.  The variable reads is an observer: it counts  *)
(* the file.read calls of the scan loop and is read by no action.          *)
(***************************************************************************)
EXTENDS Integers, Sequences, FiniteSets, TLC

VARIABLES
    file_present,         \* whether File::open(path) succeeds
    source,               \* the bytes of the file
    pc,                   \* position in ZipArchive::new
    last_pos,             \* file.seek(SeekFrom::End(0))
    current_index,        \* the scan index
    buffer,               \* the 4-byte window last read by the scan
    reads,                \* number of window reads done by the scan
    eofdirectory_offset,  \* last_pos - current_index as u64
    eof_record,           \* ZipArchive.eof_record
    central_records,      \* ZipArchive.central_records
    local_file_data,      \* ZipArchive.local_file_data
    outcome               \* "none" while running, "archive", or "panic"

vars == <<file_present, source, pc, last_pos, current_index, buffer, reads,
          eofdirectory_offset, eof_record, central_records, local_file_data,
          outcome>>

----------------------------------------------------------------------------
(* Bounds of the checked inputs.                                           *)

\* longest file made of arbitrary bytes of RawBytes
MaxRawLen == 5
\* bytes before the central directory of a built archive
MaxPrefix == 1
\* central directory entries of a built archive
MaxEntries == 1
\* file name length of each entry
MaxName == 1
\* filler bytes on each side of a comment's decoy
MaxPad == 1
\* bytes by which comment_length exceeds the bytes present
MaxSlack == 1
\* bytes by which size_of_cdr falls short of the directory
MaxShort == 1

----------------------------------------------------------------------------
(* Program constants.                                                      *)

eof_record_num == <<80, 75, 5, 6>>       \* [0x50, 0x4b, 0x05, 0x06]
\* 0x06054b50
EOCD_MAGIC == 101010256
\* 0x02014b50
CDFH_MAGIC == 33639248
\* size_of::<EndOfCentralDirectoryRecord>()
EocdSize == 22
\* size_of::<CentralDirectoryFileHeader>()
CdfhSize == 46
\* [u8; 4]
WindowSize == 4

----------------------------------------------------------------------------
(* Reading and decoding.                                                   *)

Max(a, b) == IF a < b THEN b ELSE a

(* seek(Start(pos)) then read into a zeroed buffer of n bytes: the bytes   *)
(* the file has from pos on are copied, the rest of the buffer stays 0.    *)
ReadAt(src, pos, n) ==
    [i \in 1..n |-> IF pos + i <= Len(src) THEN src[pos + i] ELSE 0]

(* Little-endian fields of a byte buffer b, at 0-based offset o.           *)
LE16(b, o) == b[o + 1] + 256 * b[o + 2]
LE32(b, o) == b[o + 1] + 256 * b[o + 2] + 65536 * b[o + 3] + 16777216 * b[o + 4]

(* EndOfCentralDirectoryRecord::new()                                      *)
EndOfCentralDirectoryRecordNew ==
    [magic_number |-> EOCD_MAGIC, number_of_current_disk |-> 0,
     disk_where_cdr_starts |-> 0, num_cdr_on_disk |-> 0, total_cdr |-> 0,
     size_of_cdr |-> 0, offset_cdr_start |-> 0, comment_length |-> 0]

(* The packed #[repr(C)] struct filled from 22 bytes (little-endian host). *)
DecodeEocd(b) ==
    [magic_number |-> LE32(b, 0), number_of_current_disk |-> LE16(b, 4),
     disk_where_cdr_starts |-> LE16(b, 6), num_cdr_on_disk |-> LE16(b, 8),
     total_cdr |-> LE16(b, 10), size_of_cdr |-> LE32(b, 12),
     offset_cdr_start |-> LE32(b, 16), comment_length |-> LE16(b, 20)]

(* EndOfCentralDirectoryRecord::load_data: the record read at              *)
(* offset_starting and the offset where the reading ended.                 *)
load_data(src, offset_starting) ==
    [data |-> DecodeEocd(ReadAt(src, offset_starting, EocdSize)),
     end |-> offset_starting + EocdSize]

(* EofRecord::new                                                          *)
EofRecordNew(src, offset_starting) ==
    LET loaded == load_data(src, offset_starting)
        static_data == loaded.data
        end_offset == loaded.end
        comment_buf == ReadAt(src, end_offset, static_data.comment_length)
    IN  [static_data |-> static_data, start_offset |-> offset_starting,
         end_offset |-> end_offset, comment |-> comment_buf]

NoEofRecord ==
    [static_data |-> EndOfCentralDirectoryRecordNew, start_offset |-> 0,
     end_offset |-> 0, comment |-> <<>>]

----------------------------------------------------------------------------
(* The scan loop's pieces.                                                 *)

LoopCondInclusive(index, last) == index <= last
LoopCondOffByOne(index, last) == index < last - 1

(* while current_index < last_pos as i64                                   *)
LoopCond(index, last) == index < last

MatchesPrefix(buf) == SubSeq(buf, 1, 2) = SubSeq(eof_record_num, 1, 2)

(* &eof_record_num[..] == &buffer[..]                                      *)
Matches(buf) == buf = eof_record_num

(* current_index = current_index + 1                                       *)
NextIndex(index) == index + 1

----------------------------------------------------------------------------
(* Input files.                                                            *)

RawBytes == {0, 5, 6, 75, 80}

RECURSIVE SeqsOfLen(_, _)
SeqsOfLen(S, n) ==
    IF n = 0 THEN {<<>>}
    ELSE {Append(s, x) : s \in SeqsOfLen(S, n - 1), x \in S}

RawSources == UNION {SeqsOfLen(RawBytes, n) : n \in 0..MaxRawLen}

Fill(n, byte) == [i \in 1..n |-> byte]
U16(v) == <<v % 256, v \div 256>>
U32(v) == <<v % 256, (v \div 256) % 256, (v \div 65536) % 256, v \div 16777216>>

(* The 22 bytes of an end-of-central-directory record.                     *)
EocdBytes(total, size, offset, clen) ==
    eof_record_num \o U16(0) \o U16(0) \o U16(total) \o U16(total)
        \o U32(size) \o U32(offset) \o U16(clen)

(* A central directory file header with a name of nlen bytes, no extra     *)
(* field and no comment.                                                   *)
CdfhBytes(nlen) ==
    U32(CDFH_MAGIC) \o Fill(24, 0) \o U16(nlen) \o U16(0) \o U16(0)
        \o Fill(12, 0) \o Fill(nlen, 97)

RECURSIVE Repeat(_, _)
Repeat(s, n) == IF n = 0 THEN <<>> ELSE s \o Repeat(s, n - 1)

(* What a comment may hold between its filler bytes: nothing, the first   *)
(* two signature bytes, the signature, or a whole empty EOCD record.       *)
Decoys == {<<>>, SubSeq(eof_record_num, 1, 2), eof_record_num, EocdBytes(0, 0, 0, 0)}

Trailers ==
    {Fill(a, 65) \o d \o Fill(b, 65) : a \in 0..MaxPad, b \in 0..MaxPad, d \in Decoys}

(* prefix, central directory of n entries, EOCD, trailing comment bytes.   *)
ArchiveBytes(p, n, nlen, short, trailer, slack) ==
    LET cd == Repeat(CdfhBytes(nlen), n)
    IN  Fill(p, 0) \o cd
            \o EocdBytes(n, Len(cd) - short, p, Len(trailer) + slack)
            \o trailer

ArchiveShapes ==
    {sh \in [p : 0..MaxPrefix, n : 0..MaxEntries, nlen : 0..MaxName,
             short : 0..MaxShort, slack : 0..MaxSlack] :
        /\ sh.short <= sh.n
        /\ sh.n = 0 => sh.nlen = 0}

ArchiveSources ==
    {ArchiveBytes(sh.p, sh.n, sh.nlen, sh.short, t, sh.slack) :
        sh \in ArchiveShapes, t \in Trailers}

Sources == RawSources \cup ArchiveSources

----------------------------------------------------------------------------
(* ZipArchive::new                                                         *)

Init ==
    /\ \/ file_present = TRUE /\ source \in Sources
       \/ file_present = FALSE /\ source = <<>>
    /\ pc = "open"
    /\ last_pos = 0
    /\ current_index = 0
    /\ buffer = Fill(WindowSize, 0)
    /\ reads = 0
    /\ eofdirectory_offset = 0
    /\ eof_record = NoEofRecord
    /\ central_records = <<>>
    /\ local_file_data = <<>>
    /\ outcome = "none"

(* File::open fails: panic!("Couldn't open ...")                           *)
OpenFail ==
    /\ pc = "open"
    /\ ~file_present
    /\ pc' = "done"
    /\ outcome' = "panic"
    /\ UNCHANGED <<file_present, source, last_pos, current_index, buffer, reads,
                   eofdirectory_offset, eof_record, central_records,
                   local_file_data>>

(* File::open, seek(End(0)), current_index = 1                             *)
OpenFile ==
    /\ pc = "open"
    /\ file_present
    /\ last_pos' = Len(source)
    /\ current_index' = 1
    /\ pc' = "scan"
    /\ UNCHANGED <<file_present, source, buffer, reads, eofdirectory_offset,
                   eof_record, central_records, local_file_data, outcome>>

(* One iteration of the while loop: read the window at End(-current_index) *)
(* and either break on a match or advance the index.                       *)
ScanStep ==
    /\ pc = "scan"
    /\ LoopCond(current_index, last_pos)
    /\ buffer' = ReadAt(source, last_pos - current_index, WindowSize)
    /\ reads' = reads + 1
    /\ IF Matches(buffer')
          THEN /\ pc' = "locate"
               /\ UNCHANGED current_index
          ELSE /\ pc' = "scan"
               /\ current_index' = NextIndex(current_index)
    /\ UNCHANGED <<file_present, source, last_pos, eofdirectory_offset,
                   eof_record, central_records, local_file_data, outcome>>

(* The loop condition fails: the loop is left without a match.             *)
ScanExit ==
    /\ pc = "scan"
    /\ ~LoopCond(current_index, last_pos)
    /\ pc' = "locate"
    /\ UNCHANGED <<file_present, source, last_pos, current_index, buffer, reads,
                   eofdirectory_offset, eof_record, central_records,
                   local_file_data, outcome>>

(* eofdirectory_offset = last_pos - current_index as u64.  When the        *)
(* difference is negative the subtraction panics in a build with overflow  *)
(* checks and wraps to 2^64 + difference in a build without; the wrapped   *)
(* value is kept as the i64 it is cast to by File::seek, the difference.   *)
Locate ==
    /\ pc = "locate"
    /\ \/ /\ last_pos >= current_index
          /\ eofdirectory_offset' = last_pos - current_index
          /\ pc' = "load"
          /\ UNCHANGED outcome
       \/ /\ last_pos < current_index
          /\ \E overflow_checks \in BOOLEAN :
                IF overflow_checks
                   THEN /\ pc' = "done"
                        /\ outcome' = "panic"
                        /\ UNCHANGED eofdirectory_offset
                   ELSE /\ eofdirectory_offset' = last_pos - current_index
                        /\ pc' = "load"
                        /\ UNCHANGED outcome
    /\ UNCHANGED <<file_present, source, last_pos, current_index, buffer, reads,
                   eof_record, central_records, local_file_data>>

(* EofRecord::new(&mut file, eofdirectory_offset) and the ZipArchive       *)
(* literal.  seek(Start(offset)).unwrap() panics on an offset whose i64    *)
(* cast is negative.                                                       *)
LoadEof ==
    /\ pc = "load"
    /\ pc' = "done"
    /\ IF eofdirectory_offset < 0
          THEN /\ outcome' = "panic"
               /\ UNCHANGED <<eof_record, central_records, local_file_data>>
          ELSE /\ eof_record' = EofRecordNew(source, eofdirectory_offset)
               /\ central_records' = <<>>
               /\ local_file_data' = <<>>
               /\ outcome' = "archive"
    /\ UNCHANGED <<file_present, source, last_pos, current_index, buffer, reads,
                   eofdirectory_offset>>

Next == OpenFail \/ OpenFile \/ ScanStep \/ ScanExit \/ Locate \/ LoadEof

Spec == Init /\ [][Next]_vars

(* The program is one thread that runs to completion.                      *)
FairSpec == Spec /\ WF_vars(Next)

----------------------------------------------------------------------------
(* What the archive format says about a file.                              *)

Done == pc = "done"
ArchiveReturned == outcome = "archive"

SetMax(S) == CHOOSE x \in S : \A y \in S : y <= x

(* The 4 bytes at offset o are the signature.                              *)
SigAt(src, o) ==
    /\ o >= 0
    /\ o + WindowSize <= Len(src)
    /\ SubSeq(src, o + 1, o + WindowSize) = eof_record_num

SigOffsets(src) == {o \in 0..Len(src) : SigAt(src, o)}

(* The signature is at o and o + 22 + comment_length(o) is the length.     *)
Consistent(src, o) ==
    /\ SigAt(src, o)
    /\ o + EocdSize <= Len(src)
    /\ o + EocdSize + LE16(src, o + 20) = Len(src)

ConsistentOffsets(src) == {o \in 0..Len(src) : Consistent(src, o)}

TrueEocd(src) ==
    LET o == SetMax(ConsistentOffsets(src))
    IN  DecodeEocd(SubSeq(src, o + 1, o + EocdSize))

(* The position after k central directory file headers read from pos, each *)
(* followed by its name, extra field and comment; -1 when a header is cut  *)
(* short or does not carry the central directory magic.                    *)
RECURSIVE CdEnd(_, _, _)
CdEnd(src, pos, k) ==
    IF k = 0 THEN pos
    ELSE IF pos + CdfhSize > Len(src) \/ LE32(src, pos) # CDFH_MAGIC THEN -1
    ELSE LET next == pos + CdfhSize + LE16(src, pos + 28) + LE16(src, pos + 30)
                         + LE16(src, pos + 32)
         IN  IF next > Len(src) THEN -1 ELSE CdEnd(src, next, k - 1)

(* The file has a length-consistent EOCD whose central directory entries   *)
(* can all be read.                                                        *)
HasDirectory(src) ==
    /\ ConsistentOffsets(src) # {}
    /\ CdEnd(src, TrueEocd(src).offset_cdr_start, TrueEocd(src).total_cdr) >= 0

DirectorySize(src) ==
    CdEnd(src, TrueEocd(src).offset_cdr_start, TrueEocd(src).total_cdr)
        - TrueEocd(src).offset_cdr_start

ValidArchive(src) ==
    /\ HasDirectory(src)
    /\ DirectorySize(src) = TrueEocd(src).size_of_cdr
    /\ TrueEocd(src).offset_cdr_start + TrueEocd(src).size_of_cdr
           <= SetMax(ConsistentOffsets(src))

----------------------------------------------------------------------------
(* C1: when a file has a length-consistent signature offset, opening it    *)
(* returns an archive whose EOCD is at the rightmost such offset, also     *)
(* when the comment holds a decoy signature.                               *)
C1_RightmostConsistentOffset ==
    (Done /\ file_present /\ ConsistentOffsets(source) # {})
        => /\ ArchiveReturned
           /\ eof_record.start_offset = SetMax(ConsistentOffsets(source))

(* C2: a valid archive whose EOCD records total_cdr = k is opened as an    *)
(* archive holding exactly k central directory entries.  Stated of the     *)
(* valid archives with one signature occurrence, where the EOCD located is *)
(* the archive's own.                                                      *)
C2_EntryCountIsTotalCdr ==
    (Done /\ file_present /\ ValidArchive(source)
          /\ Cardinality(SigOffsets(source)) = 1)
        => /\ ArchiveReturned
           /\ Len(central_records) = TrueEocd(source).total_cdr

(* C3: a file with no length-consistent signature offset is not opened:    *)
(* no archive and no EOCD record comes out of it (a panic is counted here  *)
(* as failing, although the claim names the error EocdNotFound).           *)
C3_NoConsistentOffsetFails ==
    (Done /\ file_present /\ ConsistentOffsets(source) = {})
        => /\ ~ArchiveReturned
           /\ eof_record = NoEofRecord

(* C4: a file shorter than 22 bytes ends in the error EocdNotFound or      *)
(* IoFailure, never in a panic or in a record read from padding.           *)
C4_ShortSourceIsAnError ==
    (Done /\ file_present /\ Len(source) < EocdSize)
        => outcome \in {"EocdNotFound", "IoFailure"}

(* C5: every archive returned holds an EOCD record with the EOCD magic and *)
(* as many central directory entries as that record's total_cdr.           *)
C5_ReturnedArchiveIsConsistent ==
    ArchiveReturned
        => /\ eof_record.static_data.magic_number = EOCD_MAGIC
           /\ Len(central_records) = eof_record.static_data.total_cdr

C7_CommentTakenFromSource ==
    ArchiveReturned
        => LET o == eof_record.start_offset
               n == eof_record.static_data.comment_length
           IN  /\ n <= Max(0, Len(source) - (o + EocdSize))
               /\ eof_record.comment = SubSeq(source, o + EocdSize + 1, o + EocdSize + n)

(* C8: when the size_of_cdr of the EOCD differs from the bytes that its    *)
(* total_cdr entries occupy from offset_cdr_start, opening fails with      *)
(* CentralDirectorySizeMismatch.  Stated of the files with one signature   *)
(* occurrence, where the EOCD located is the one that declares the size.   *)
C8_SizeMismatchFails ==
    (Done /\ file_present /\ HasDirectory(source)
          /\ Cardinality(SigOffsets(source)) = 1
          /\ DirectorySize(source) # TrueEocd(source).size_of_cdr)
        => outcome = "CentralDirectorySizeMismatch"

(* C9: when the signature occurs in the file, the located offset is the    *)
(* greatest offset that carries it; a window that matched lies wholly      *)
(* inside the file.                                                        *)
C9_FirstSignatureFromEnd ==
    /\ (pc \in {"load", "done"} /\ file_present /\ SigOffsets(source) # {})
           => /\ eofdirectory_offset = SetMax(SigOffsets(source))
              /\ SigAt(source, eofdirectory_offset)
    /\ (pc = "locate" /\ buffer = eof_record_num)
           => /\ current_index >= WindowSize
              /\ SigAt(source, last_pos - current_index)

(* The EOCD of a file with several signature occurrences has been located  *)
(* at the last of them.                                                    *)
C9_Witness ==
    /\ pc = "load"
    /\ Cardinality(SigOffsets(source)) >= 2
    /\ eofdirectory_offset = SetMax(SigOffsets(source))
    /\ eofdirectory_offset > 0

(* C10: the scan index starts at 1, is one more than the number of windows *)
(* read while the scan runs, never exceeds max(1, L); at most L - 1        *)
(* windows are read (none when L = 0); and the scan ends.                  *)
C10_ScanBounded ==
    file_present /\ pc # "open"
        => /\ 1 <= current_index
           /\ current_index <= Max(1, last_pos)
           /\ reads <= Max(0, last_pos - 1)
           /\ pc = "scan" => reads = current_index - 1

C10_ScanStepsByOne ==
    /\ (pc = "open" /\ pc' = "scan") => current_index' = 1 /\ reads' = 0
    /\ (pc = "scan" /\ pc' = "scan")
           => current_index' = current_index + 1 /\ reads' = reads + 1
    /\ (pc = "scan" /\ pc' # "scan") => current_index' = current_index

C10_ScanTerminates ==
    /\ []C10_ScanBounded
    /\ [][C10_ScanStepsByOne]_vars
    /\ (pc = "scan") ~> (pc = "locate")

(* A scan that read every window of a file without a signature has ended.  *)
C10_Witness ==
    /\ pc = "locate"
    /\ SigOffsets(source) = {}
    /\ last_pos > WindowSize
    /\ current_index = last_pos
    /\ reads = last_pos - 1

====
